---- MODULE Spec2Model ----
(***************************************************************************)
(* Module construction of the depthai Python bindings                      *)
(* (src/src/py_bindings.cpp, PYBIND11_MODULE(depthai, m)).                  *)
(*                                                                         *)
(* The driver seeds a std::deque of registration callbacks with            *)
(* push_front, wraps it in the Callstack adapter, makes the initial call   *)
(* CommonBindings::bind(m, &callstackAdapter), which drains the work-list, *)
(* then probes sys and builtins for DEPTHAI_INSTALL_SIGNAL_HANDLER and     *)
(* calls dai::initialize.                                                  *)
(*                                                                         *)
(* The Callstack adapter and the registrars are declared in headers that   *)
(* are not part of the source at hand; they are modelled from the          *)
(* specification.  The sequence `callstack` is kept in deque order: index  *)
(* 1 is the deque's front.  The driver calls its last push_front "end of   *)
(* the callstack" (line 70), and the specification's end-to-end scenario   *)
(* runs seeds in the order they were pushed: the adapter therefore takes   *)
(* the next callback from the end opposite to the driver's push_front, and *)
(* a running callback's push lands at that same end.                       *)
(***************************************************************************)
EXTENDS Integers, Sequences, FiniteSets, TLC

VARIABLES pc, seedProg, callstack, nextId, running, pushedNow, totalPushed,
          trace, pendingAt, raised, raisedAt, drainStatus, moduleError,
          installSignalHandler, sysNs, builtinsNs,
          initCalls, initFlag, initOutcome

vars == <<pc, seedProg, callstack, nextId, running, pushedNow, totalPushed,
          trace, pendingAt, raised, raisedAt, drainStatus, moduleError,
          installSignalHandler, sysNs, builtinsNs,
          initCalls, initFlag, initOutcome>>

(* ------------------------------ bounds --------------------------------- *)

\* most callbacks a single addToCallstack adds
MaxAddToCallstack == 2
\* most pushes one running callback makes
MaxPushPer == 2
\* most pushes made during one drain
MaxPushTotal == 2
\* most seeds of a scenario work-list
MaxScenarioSeeds == 3

(* ----------------------------- constants ------------------------------- *)

DriverId == 0
CommonId == 1

NoError == "none"
ErrorKinds == {"error_already_set", "std_exception"}

NoCallback == [id |-> -1, name |-> "none", parent |-> -1, ord |-> 0]

\* the statements of the driver that add to the deque, in program order
DriverSeedsRosFirst ==
    << "RosBindings", "DatatypeBindings", "LogBindings", "VersionBindings",
       "DataQueueBindings", "OpenVINOBindings", "NodeBindings",
       "AssetManagerBindings", "PipelineBindings", "XLinkBindings",
       "DeviceBindings", "DeviceBootloaderBindings",
       "CalibrationHandlerBindings", "EndOfCallstack" >>

DriverSeedsSentinelFirst ==
    << "EndOfCallstack", "DatatypeBindings", "LogBindings", "VersionBindings",
       "DataQueueBindings", "OpenVINOBindings", "NodeBindings",
       "AssetManagerBindings", "PipelineBindings", "XLinkBindings",
       "DeviceBindings", "DeviceBootloaderBindings",
       "CalibrationHandlerBindings", "RosBindings" >>

DriverSeeds ==
    << "DatatypeBindings", "LogBindings", "VersionBindings",
       "DataQueueBindings", "OpenVINOBindings", "NodeBindings",
       "AssetManagerBindings", "PipelineBindings", "XLinkBindings",
       "DeviceBindings", "DeviceBootloaderBindings",
       "CalibrationHandlerBindings", "RosBindings", "EndOfCallstack" >>

\* the two statements that hand the deque to the area (addToCallstack)
AddToCallstackNames == {"DatatypeBindings", "NodeBindings"}

ScenarioNames == {"X", "Y", "Z", "DatatypeBindings"}

\* the callback of line 71 has an empty body: it pushes nothing and cannot throw
NoOpNames == {"EndOfCallstack"}

(* ------------------------------ the deque ------------------------------ *)

push_back(q, cb) == Append(q, cb)

\* std::deque::push_front
push_front(q, cb) == <<cb>> \o q

(* ------------------------- the Callstack adapter ----------------------- *)

\* the callback the drain runs next
AdapterTop(q) == q[Len(q)]

AdapterPopTwo(q) == SubSeq(q, 1, Len(q) - 2)

\* the work-list without the callback the drain runs next
AdapterPop(q) == SubSeq(q, 1, Len(q) - 1)

AdapterPushFarEnd(q, cb) == <<cb>> \o q

\* a running callback's push: the callback becomes the next one invoked
AdapterPush(q, cb) == Append(q, cb)

Ids(q) == {q[i].id : i \in 1..Len(q)}

(* --------------------------- the driver -------------------------------- *)

Init ==
    /\ pc = "seed"
    /\ seedProg = DriverSeeds
    /\ callstack = <<>>
    /\ nextId = CommonId + 1
    /\ running = NoCallback
    /\ pushedNow = 0
    /\ totalPushed = 0
    /\ trace = <<>>
    /\ pendingAt = <<>>
    /\ raised = NoError
    /\ raisedAt = 0
    /\ drainStatus = "none"
    /\ moduleError = NoError
    /\ installSignalHandler = TRUE
    /\ sysNs = "unprobed"
    /\ builtinsNs = "unprobed"
    /\ initCalls = 0
    /\ initFlag = TRUE
    /\ initOutcome = "none"

gateVars == <<installSignalHandler, sysNs, builtinsNs, initCalls, initFlag, initOutcome>>
drainVars == <<running, pushedNow, totalPushed, trace, pendingAt, raised, raisedAt,
               drainStatus, moduleError>>

\* callstack.push_front(&Area::bind)
SeedPushFront ==
    /\ pc = "seed"
    /\ seedProg # <<>>
    /\ Head(seedProg) \notin AddToCallstackNames
    /\ callstack' = push_front(callstack,
            [id |-> nextId, name |-> Head(seedProg), parent |-> DriverId, ord |-> 0])
    /\ nextId' = nextId + 1
    /\ seedProg' = Tail(seedProg)
    /\ UNCHANGED <<pc, drainVars, gateVars>>

RECURSIVE PushAll(_, _, _, _, _)
PushAll(q, name, id, k, n) ==
    IF k > n THEN q
    ELSE PushAll(push_front(q, [id |-> id, name |-> name, parent |-> DriverId, ord |-> k]),
                 name, id + 1, k + 1, n)

\* Area::addToCallstack(callstack): the area adds its registrars one by one
SeedAddToCallstack ==
    /\ pc = "seed"
    /\ seedProg # <<>>
    /\ Head(seedProg) \in AddToCallstackNames
    /\ \E n \in 1..MaxAddToCallstack :
          /\ callstack' = PushAll(callstack, Head(seedProg), nextId, 1, n)
          /\ nextId' = nextId + n
    /\ seedProg' = Tail(seedProg)
    /\ UNCHANGED <<pc, drainVars, gateVars>>

CommonEntry == [id |-> CommonId, name |-> "CommonBindings", parent |-> DriverId, ord |-> 0]

InitialCallEarly ==
    /\ pc = "seed"
    /\ Len(seedProg) <= 1
    /\ pc' = "drain"
    /\ trace' = <<CommonEntry>>
    /\ pendingAt' = <<Ids(callstack)>>
    /\ UNCHANGED <<seedProg, callstack, nextId, running, pushedNow, totalPushed,
                   raised, raisedAt, drainStatus, moduleError, gateVars>>

\* Callstack callstackAdapter(callstack); CommonBindings::bind(m, &callstackAdapter)
InitialCall ==
    /\ pc = "seed"
    /\ seedProg = <<>>
    /\ pc' = "drain"
    /\ trace' = <<CommonEntry>>
    /\ pendingAt' = <<Ids(callstack)>>
    /\ UNCHANGED <<seedProg, callstack, nextId, running, pushedNow, totalPushed,
                   raised, raisedAt, drainStatus, moduleError, gateVars>>

(* ----------------------------- the drain ------------------------------- *)

\* the drain removes the next callback and invokes it
Invoke ==
    /\ pc = "drain"
    /\ running = NoCallback
    /\ raised = NoError
    /\ callstack # <<>>
    /\ running' = AdapterTop(callstack)
    /\ callstack' = AdapterPop(callstack)
    /\ trace' = Append(trace, AdapterTop(callstack))
    /\ pendingAt' = Append(pendingAt, Ids(AdapterPop(callstack)))
    /\ pushedNow' = 0
    /\ UNCHANGED <<pc, seedProg, nextId, totalPushed, raised, raisedAt, drainStatus,
                   moduleError, gateVars>>

\* the running callback pushes a further callback
CallbackPush ==
    /\ pc = "drain"
    /\ running # NoCallback
    /\ running.name \notin NoOpNames
    /\ pushedNow < MaxPushPer
    /\ totalPushed < MaxPushTotal
    /\ callstack' = AdapterPush(callstack,
            [id |-> nextId, name |-> running.name, parent |-> running.id,
             ord |-> pushedNow + 1])
    /\ nextId' = nextId + 1
    /\ pushedNow' = pushedNow + 1
    /\ totalPushed' = totalPushed + 1
    /\ UNCHANGED <<pc, seedProg, running, trace, pendingAt, raised, raisedAt,
                   drainStatus, moduleError, gateVars>>

CallbackReturn ==
    /\ pc = "drain"
    /\ running # NoCallback
    /\ running' = NoCallback
    /\ UNCHANGED <<pc, seedProg, callstack, nextId, pushedNow, totalPushed, trace,
                   pendingAt, raised, raisedAt, drainStatus, moduleError, gateVars>>

CallbackRaise ==
    /\ pc = "drain"
    /\ running # NoCallback
    /\ running.name \notin NoOpNames
    /\ \E k \in ErrorKinds : raised' = k
    /\ raisedAt' = Len(trace)
    /\ running' = NoCallback
    /\ UNCHANGED <<pc, seedProg, callstack, nextId, pushedNow, totalPushed, trace,
                   pendingAt, drainStatus, moduleError, gateVars>>

AfterInitialCallSwallow(err) == "probe_sys"

\* where control goes when the initial call ends: no handler encloses it
AfterInitialCall(err) == IF err = NoError THEN "probe_sys" ELSE "failed"

DrainReturnEmptyFails ==
    /\ pc = "drain"
    /\ running = NoCallback
    /\ raised = NoError
    /\ callstack = <<>>
    /\ drainStatus' = IF Len(trace) = 1 THEN "error" ELSE "ok"
    /\ raised' = IF Len(trace) = 1 THEN "std_exception" ELSE raised
    /\ pc' = AfterInitialCall(raised')
    /\ moduleError' = raised'
    /\ UNCHANGED <<seedProg, callstack, nextId, running, pushedNow, totalPushed, trace,
                   pendingAt, raisedAt, gateVars>>

\* the drain found the work-list empty and returns
DrainReturn ==
    /\ pc = "drain"
    /\ running = NoCallback
    /\ raised = NoError
    /\ callstack = <<>>
    /\ drainStatus' = "ok"
    /\ pc' = AfterInitialCall(NoError)
    /\ UNCHANGED <<seedProg, callstack, nextId, running, pushedNow, totalPushed, trace,
                   pendingAt, raised, raisedAt, moduleError, gateVars>>

DrainThrowCleanup ==
    /\ pc = "drain"
    /\ running = NoCallback
    /\ raised # NoError
    /\ drainStatus' = "error"
    /\ pc' = AfterInitialCall(raised)
    /\ moduleError' = IF AfterInitialCall(raised) = "failed" THEN raised ELSE NoError
    /\ callstack' = <<>>
    /\ UNCHANGED <<seedProg, nextId, running, pushedNow, totalPushed, trace,
                   pendingAt, raised, raisedAt, gateVars>>

\* the callback's exception leaves the drain and the initial call
DrainThrow ==
    /\ pc = "drain"
    /\ running = NoCallback
    /\ raised # NoError
    /\ drainStatus' = "error"
    /\ pc' = AfterInitialCall(raised)
    /\ moduleError' = IF AfterInitialCall(raised) = "failed" THEN raised ELSE NoError
    /\ UNCHANGED <<seedProg, callstack, nextId, running, pushedNow, totalPushed, trace,
                   pendingAt, raised, raisedAt, gateVars>>

(* --------------------- the initialization gate ------------------------- *)

\* what a probe can find: the import throws, no such attribute, a value
\* that casts to true or to false, a value cast<bool>() rejects
NsStates == {"absent", "undefined", "true", "false", "unconvertible"}

DefaultInstallSignalHandler == TRUE

\* an exception leaves the try block
ProbeThrows(flag, ns) == ns = "absent" \/ (ns = "unconvertible" /\ flag)

ProbeOverwrite(flag, ns) ==
    IF ns \in {"true", "false"} THEN ns = "true" ELSE flag

ProbeResetOnFailure(flag, ns) ==
    IF ns \in {"true", "false"} THEN flag /\ (ns = "true") ELSE TRUE

\* try { import; if(hasattr) flag = flag && attr.cast<bool>(); } catch(...) {}
Probe(flag, ns) ==
    IF ProbeThrows(flag, ns) THEN flag
    ELSE IF ns = "undefined" THEN flag
    ELSE flag /\ (ns = "true")

ProbeSys ==
    /\ pc = "probe_sys"
    /\ \E ns \in NsStates :
          /\ sysNs' = ns
          /\ installSignalHandler' = Probe(DefaultInstallSignalHandler, ns)
    /\ pc' = "probe_builtins"
    /\ UNCHANGED <<seedProg, callstack, nextId, drainVars, builtinsNs, initCalls,
                   initFlag, initOutcome>>

ProbeBuiltins ==
    /\ pc = "probe_builtins"
    /\ \E ns \in NsStates :
          /\ builtinsNs' = ns
          /\ installSignalHandler' = Probe(installSignalHandler, ns)
    /\ pc' = "initialize"
    /\ UNCHANGED <<seedProg, callstack, nextId, drainVars, sysNs, initCalls,
                   initFlag, initOutcome>>

\* dai::initialize returns, throws a std::exception, or throws something else
InitOutcomes == {"ok", "std_exception", "other_exception"}

InitializeHandlerNoCatch(out) == IF out = "ok" THEN "done" ELSE "failed"

\* try { dai::initialize(...); } catch (const std::exception&) {}
InitializeHandler(out) ==
    IF out \in {"ok", "std_exception"} THEN "done" ELSE "failed"

CallInitializeAgain ==
    /\ pc = "initialize"
    /\ \E out \in InitOutcomes :
          /\ initOutcome' = out
          /\ pc' = IF initCalls = 0 THEN "initialize" ELSE InitializeHandler(out)
          /\ moduleError' = IF pc' = "failed" THEN out ELSE moduleError
    /\ initCalls' = initCalls + 1
    /\ initFlag' = installSignalHandler
    /\ UNCHANGED <<seedProg, callstack, nextId, running, pushedNow, totalPushed, trace,
                   pendingAt, raised, raisedAt, drainStatus,
                   installSignalHandler, sysNs, builtinsNs>>

CallInitialize ==
    /\ pc = "initialize"
    /\ \E out \in InitOutcomes :
          /\ initOutcome' = out
          /\ pc' = InitializeHandler(out)
          /\ moduleError' = IF InitializeHandler(out) = "failed" THEN out ELSE moduleError
    /\ initCalls' = initCalls + 1
    /\ initFlag' = installSignalHandler
    /\ UNCHANGED <<seedProg, callstack, nextId, running, pushedNow, totalPushed, trace,
                   pendingAt, raised, raisedAt, drainStatus,
                   installSignalHandler, sysNs, builtinsNs>>

Next ==
    \/ SeedPushFront
    \/ SeedAddToCallstack
    \/ InitialCall
    \/ Invoke
    \/ CallbackPush
    \/ CallbackReturn
    \/ CallbackRaise
    \/ DrainReturn
    \/ DrainThrow
    \/ ProbeSys
    \/ ProbeBuiltins
    \/ CallInitialize

Spec == Init /\ [][Next]_vars

\* the construction is one synchronous call on one thread: a step that can
\* be taken is taken
SpecFair == Init /\ [][Next]_vars /\ WF_vars(Next)

(* ------------- a work-list seeded with callbacks of a scenario --------- *)

ScenarioSeeds ==
    {s \in UNION {[1..n -> ScenarioNames] : n \in 0..MaxScenarioSeeds} :
        \A i, j \in 1..Len(s) : i # j => s[i] # s[j]}

InitScenario ==
    /\ pc = "seed"
    /\ seedProg \in ScenarioSeeds
    /\ callstack = <<>>
    /\ nextId = CommonId + 1
    /\ running = NoCallback
    /\ pushedNow = 0
    /\ totalPushed = 0
    /\ trace = <<>>
    /\ pendingAt = <<>>
    /\ raised = NoError
    /\ raisedAt = 0
    /\ drainStatus = "none"
    /\ moduleError = NoError
    /\ installSignalHandler = TRUE
    /\ sysNs = "unprobed"
    /\ builtinsNs = "unprobed"
    /\ initCalls = 0
    /\ initFlag = TRUE
    /\ initOutcome = "none"

SpecScenario == InitScenario /\ [][Next]_vars

(* ------------------------------ properties ----------------------------- *)

\* the place in the trace of the callback with this id
PosInTrace(id) == CHOOSE i \in 1..Len(trace) : trace[i].id = id

\* C1: every callback pushed by a callback c is invoked before any callback
\* that was pending in the work-list when c started: when a callback that
\* was pending at the start of c has been invoked, no callback pushed by c
\* is still waiting.
C1_PushedRunBeforePending ==
    \A m \in 1..Len(callstack) :
        callstack[m].parent # DriverId =>
            \A j \in (PosInTrace(callstack[m].parent) + 1)..Len(trace) :
                trace[j].id \notin pendingAt[PosInTrace(callstack[m].parent)]

\* c pushed two callbacks, both have been invoked, and then a callback that
\* was pending when c started
C1_Witness ==
    \E i \in 1..Len(trace) :
        /\ i + 3 <= Len(trace)
        /\ trace[i + 1].parent = trace[i].id
        /\ trace[i + 2].parent = trace[i].id
        /\ trace[i + 3].id \in pendingAt[i]

\* C2: once a callback has raised, no further callback is invoked, and when
\* the drain has ended the module construction has failed with that error.
C2_RaiseStopsDrainAndPropagates ==
    raised # NoError =>
        /\ Len(trace) = raisedAt
        /\ Ids(callstack) \cap Ids(trace) = {}
        /\ pc \in {"drain", "failed"}
        /\ pc = "failed" => moduleError = raised

C2_Witness ==
    /\ raised = "std_exception"
    /\ pc = "failed"
    /\ moduleError = "std_exception"
    /\ callstack # <<>>

\* C3: dai::initialize has been called only if the drain returned without
\* error.
C3_InitializeOnlyAfterCleanDrain ==
    initCalls > 0 => (drainStatus = "ok" /\ raised = NoError)

C3_Witness == initCalls = 1 /\ drainStatus = "ok" /\ Len(trace) > 1

GateRunning ==
    pc \in {"probe_sys", "probe_builtins", "initialize"} \/ initCalls > 0

\* C4: while the initialization gate runs the work-list is empty and every
\* callback that was seeded or pushed has been invoked.
C4_GateSeesEmptyWorkList ==
    GateRunning =>
        /\ callstack = <<>>
        /\ (CommonId + 1)..(nextId - 1) \subseteq Ids(trace)

C4_Witness == pc = "initialize" /\ totalPushed > 0 /\ callstack = <<>>

C6_FlagIsConjunction ==
    initCalls > 0 =>
        initFlag = (sysNs # "false" /\ builtinsNs # "false")

C6_Witness ==
    initCalls = 1 /\ sysNs = "false" /\ builtinsNs = "true" /\ initFlag = FALSE

ProbeFailure(ns) == ns \in {"absent", "undefined", "unconvertible"}

\* C7: a probe that fails leaves the flag as it was before the probe, and
\* the next probe and the initialize call follow without a failure of the
\* construction.
C7_ProbeFailureSwallowed ==
    [][ /\ pc = "probe_sys" =>
              /\ pc' = "probe_builtins"
              /\ moduleError' = NoError
              /\ ProbeFailure(sysNs') =>
                    installSignalHandler' = DefaultInstallSignalHandler
        /\ pc = "probe_builtins" =>
              /\ pc' = "initialize"
              /\ moduleError' = NoError
              /\ ProbeFailure(builtinsNs') =>
                    installSignalHandler' = installSignalHandler
        /\ pc = "initialize" => initCalls' = 1 ]_vars

C7_Witness ==
    /\ sysNs = "false"
    /\ builtinsNs = "absent"
    /\ initCalls = 1
    /\ initFlag = FALSE
    /\ pc = "done"

Label(e) == <<e.name, e.ord>>

Entry(id, name, parent, ord) == [id |-> id, name |-> name, parent |-> parent, ord |-> ord]

InTrace(e) == \E i \in 1..Len(trace) : trace[i] = e

\* seeds X, Y, Z pushed in that order, Y pushed Y1 then Y2, nothing else
ScenarioXYZ ==
    /\ drainStatus = "ok"
    /\ Len(trace) = 6
    /\ InTrace(Entry(2, "X", DriverId, 0))
    /\ InTrace(Entry(3, "Y", DriverId, 0))
    /\ InTrace(Entry(4, "Z", DriverId, 0))
    /\ InTrace(Entry(5, "Y", 3, 1))
    /\ InTrace(Entry(6, "Y", 3, 2))

\* C8: seeds X, Y, Z pushed in that order, Y pushing Y1 then Y2, are
\* invoked in the order X, Y, Y2, Y1, Z.
C8_EndToEndTrace ==
    ScenarioXYZ =>
        [i \in 1..5 |-> Label(trace[i + 1])] =
            << <<"X", 0>>, <<"Y", 0>>, <<"Y", 2>>, <<"Y", 1>>, <<"Z", 0>> >>

C8_Witness == ScenarioXYZ /\ pc = "done"

\* the place of each area in the order of the claim: the device, pipeline
\* and node areas before the utility areas (log, version, data queue,
\* OpenVINO)
RankStated ==
    [CommonBindings |-> 0, DatatypeBindings |-> 1,
     NodeBindings |-> 2, AssetManagerBindings |-> 2, PipelineBindings |-> 2,
     XLinkBindings |-> 2, DeviceBindings |-> 2, DeviceBootloaderBindings |-> 2,
     CalibrationHandlerBindings |-> 2,
     LogBindings |-> 3, VersionBindings |-> 3, DataQueueBindings |-> 3,
     OpenVINOBindings |-> 3,
     RosBindings |-> 4, EndOfCallstack |-> 5]

\* the same areas, the utility areas before the device, pipeline and node
\* areas
RankObserved ==
    [CommonBindings |-> 0, DatatypeBindings |-> 1,
     LogBindings |-> 2, VersionBindings |-> 2, DataQueueBindings |-> 2,
     OpenVINOBindings |-> 2,
     NodeBindings |-> 3, AssetManagerBindings |-> 3, PipelineBindings |-> 3,
     XLinkBindings |-> 3, DeviceBindings |-> 3, DeviceBootloaderBindings |-> 3,
     CalibrationHandlerBindings |-> 3,
     RosBindings |-> 4, EndOfCallstack |-> 5]

C10_InitializeExactlyOnce ==
    /\ initCalls <= 1
    /\ initCalls = 1 => (sysNs # "unprobed" /\ builtinsNs # "unprobed")
    /\ (drainStatus = "ok" /\ pc \in {"done", "failed"}) => initCalls = 1

C10_Witness == drainStatus = "ok" /\ pc = "done" /\ initCalls = 1

IsSeed(e) == e.parent = DriverId /\ e.id # CommonId

\* C12 as stated: seeds run in the reverse of the order they were pushed:
\* a seed that has just been invoked was pushed before every seed invoked
\* earlier.
C12_Original ==
    (Len(trace) > 1 /\ IsSeed(trace[Len(trace)])) =>
        \A i \in 2..(Len(trace) - 1) :
            IsSeed(trace[i]) => trace[i].id > trace[Len(trace)].id

\* C12: seeds run in the order they were pushed: a seed that has just been
\* invoked was pushed after every seed invoked earlier, and before every
\* seed still waiting.
C12_SeedsRunInPushOrder ==
    (Len(trace) > 1 /\ IsSeed(trace[Len(trace)])) =>
        /\ \A i \in 2..(Len(trace) - 1) :
              IsSeed(trace[i]) => trace[i].id < trace[Len(trace)].id
        /\ \A m \in 1..Len(callstack) :
              IsSeed(callstack[m]) => trace[Len(trace)].id < callstack[m].id

C12_Witness ==
    /\ drainStatus = "ok"
    /\ Len(trace) > 3
    /\ IsSeed(trace[2])
    /\ trace[2].name = "DatatypeBindings"
    /\ trace[Len(trace)].name = "EndOfCallstack"

\* C13: the no-op sentinel is the last callback the driver adds (no seed
\* has a later id), the work-list is not empty when the drain starts, and
\* the sentinel is the last callback the drain invokes: once it has been
\* invoked the work-list is empty, and a drain that returns has invoked it.
C13_SentinelLast ==
    /\ pc # "seed" => pendingAt[1] # {}
    /\ \A i \in 1..Len(trace) :
          trace[i].name \in NoOpNames =>
              /\ i = Len(trace)
              /\ callstack = <<>>
              /\ \A id \in pendingAt[1] : id <= trace[i].id
    /\ drainStatus = "ok" => trace[Len(trace)].name \in NoOpNames

C13_Witness ==
    /\ drainStatus = "ok"
    /\ totalPushed > 0
    /\ trace[Len(trace)].name = "EndOfCallstack"
    /\ Len(trace) > Cardinality(pendingAt[1])

C15_RaiseLeavesWorkList ==
    [][ raised' # NoError => (callstack' = callstack /\ trace' = trace) ]_vars

C15_Witness ==
    /\ raised # NoError
    /\ pc = "failed"
    /\ Len(callstack) >= 2
    /\ Len(trace) >= 3
    /\ Ids(callstack) \cap Ids(trace) = {}

\* the callback invoked last
Latest == trace[Len(trace)]

\* a callback pushed during the drain
IsPushed(e) == e.parent # DriverId

\* C16 as stated: within a batch the first pushed runs first: when a pushed
\* callback has been invoked, the callbacks of its batch that still wait
\* were pushed after it.
C16_Original ==
    (Len(trace) > 0 /\ IsPushed(Latest)) =>
        \A m \in 1..Len(callstack) :
            callstack[m].parent = Latest.parent => callstack[m].ord > Latest.ord

\* C16: within a batch the last pushed runs first, and batches run newest
\* first: when a pushed callback has been invoked, every callback that
\* still waits and was not pushed by it was placed in the work-list before
\* it, those of its own batch included; when a seed has been invoked no
\* pushed callback still waits except its own.
C16_NewestFirst ==
    Len(trace) > 0 =>
        \A m \in 1..Len(callstack) :
            /\ (IsPushed(Latest) /\ callstack[m].parent # Latest.id) =>
                  callstack[m].id < Latest.id
            /\ (IsPushed(Latest) /\ callstack[m].parent = Latest.parent) =>
                  callstack[m].ord < Latest.ord
            /\ (~IsPushed(Latest) /\ IsPushed(callstack[m])) =>
                  callstack[m].parent = Latest.id

C16_Witness ==
    /\ Len(trace) > 0
    /\ IsPushed(Latest)
    /\ Latest.ord = 2
    /\ callstack # <<>>
    /\ AdapterTop(callstack).parent = Latest.parent
    /\ AdapterTop(callstack).ord = 1

\* every callback placed in the work-list has been invoked exactly once
AllInvokedOnce ==
    /\ Ids(trace) = CommonId..(nextId - 1)
    /\ Len(trace) = nextId - CommonId

\* C17: unless a callback raises, the drain ends: it returns with the
\* work-list empty and every callback ever placed in it invoked exactly
\* once.
C17_DrainTerminates ==
    <>(raised # NoError \/ (drainStatus = "ok" /\ callstack = <<>> /\ AllInvokedOnce))

C17_Witness ==
    /\ drainStatus = "ok"
    /\ callstack = <<>>
    /\ totalPushed = 2
    /\ AllInvokedOnce
    /\ raised = NoError

\* C18: the drain starts once, when the driver has added every seed; from
\* then on the driver adds nothing (a new entry is the running callback's),
\* and once the drain has ended the work-list is never changed again.
C18_SeededBeforeSingleDrain ==
    /\ [](pc # "seed" => seedProg = <<>>)
    /\ [][ /\ pc # "seed" => pc' # "seed"
           /\ (pc = "seed" /\ pc' # "seed") => (pc' = "drain" /\ trace = <<>>)
           /\ trace # <<>> => (trace' # <<>> /\ trace'[1] = trace[1])
           /\ (pc # "seed" /\ Len(callstack') > Len(callstack)) =>
                 (running # NoCallback /\ AdapterTop(callstack').parent = running.id)
           /\ drainStatus # "none" => callstack' = callstack ]_vars

C18_Witness ==
    /\ pc = "done"
    /\ drainStatus = "ok"
    /\ seedProg = <<>>
    /\ totalPushed > 0
    /\ Cardinality(pendingAt[1]) >= Len(DriverSeeds)

====
